---- MODULE Spec2Model ----
(***************************************************************************)
(* PSQL_Stats: the Session (struct Connection, psql_stats/mod.rs), the     *)
(* Record Store (./db_connections.json, written by write_to_json and read  *)
(* by read_from_json) and the REPL of main.rs.                             *)
(*                                                                         *)
(* Strings are sequences of one-character strings, so that read_line,      *)
(* trim, serde_json's string escaping and Value::to_string are computed    *)
(* rather than assumed.                                                    *)
(*                                                                         *)
(* The state is kept for two runs of the program (Runs) that are given the *)
(* same inputs except for the passwords and for what the server answers,   *)
(* so that "the password never reaches the store" is a property of states. *)
(***************************************************************************)
EXTENDS Integers, Sequences, FiniteSets, TLC

\* ------------------------------------------------------------------ bounds

\* How many times the program is started again on the same store file.
MaxRestarts == 1

Runs == {1, 2}

\* ------------------------------------------------------------- characters

NL == "\n"
QUOTE == "\""
BACKSLASH == "\\"

\* char::is_whitespace, for the characters the model uses (str::trim)
IsWhitespace(c) == c \in {" ", NL, "\t", "\r"}

IsDigit(c) == c \in {"0", "1", "2", "3", "4", "5", "6", "7", "8", "9"}

DigitChar(d) ==
    CASE d = 0 -> "0" [] d = 1 -> "1" [] d = 2 -> "2" [] d = 3 -> "3"
      [] d = 4 -> "4" [] d = 5 -> "5" [] d = 6 -> "6" [] d = 7 -> "7"
      [] d = 8 -> "8" [] d = 9 -> "9"

DigitValue(c) == CHOOSE d \in 0..9 : DigitChar(d) = c

\* ---------------------------------------------------------------- strings

RECURSIVE TrimStart(_)
TrimStart(s) ==
    IF s # <<>> /\ IsWhitespace(Head(s)) THEN TrimStart(Tail(s)) ELSE s

RECURSIVE TrimEnd(_)
TrimEnd(s) ==
    IF s # <<>> /\ IsWhitespace(s[Len(s)])
    THEN TrimEnd(SubSeq(s, 1, Len(s) - 1))
    ELSE s

\* str::trim
Trim(s) == TrimEnd(TrimStart(s))

\* Stdin::read_line appends the typed line, with its line break, to the buffer
ReadLine(buf, typed) == buf \o typed \o <<NL>>

RECURSIVE NatToString(_)
NatToString(n) ==
    IF n < 10 THEN <<DigitChar(n)>>
    ELSE NatToString(n \div 10) \o <<DigitChar(n % 10)>>

\* i16::to_string (main.rs formats the --port argument)
IntToString(n) == IF n < 0 THEN <<"-">> \o NatToString(0 - n) ELSE NatToString(n)

RECURSIVE DigitsValue(_)
DigitsValue(s) ==
    IF s = <<>> THEN 0
    ELSE 10 * DigitsValue(SubSeq(s, 1, Len(s) - 1)) + DigitValue(s[Len(s)])

U16Max == 65535
DefaultPort == 5432

\* str::parse::<u16>: an optional '+', then digits, value at most 65535.
\* Returns the number, or -1 for Err.
ParseU16(s) ==
    LET body == IF s # <<>> /\ Head(s) = "+" THEN Tail(s) ELSE s
    IN  IF body = <<>> \/ \E i \in 1..Len(body) : ~IsDigit(body[i]) THEN -1
        ELSE IF Len(body) > 5 THEN
                 (IF \A i \in 1..(Len(body) - 5) : body[i] = "0"
                     /\ DigitsValue(SubSeq(body, Len(body) - 4, Len(body))) <= U16Max
                  THEN DigitsValue(SubSeq(body, Len(body) - 4, Len(body)))
                  ELSE -1)
        ELSE IF DigitsValue(body) <= U16Max THEN DigitsValue(body)
        ELSE -1

\* The port number Connection::new puts in its connection string
PortNum(port) ==
    IF port = <<>> THEN DefaultPort
    ELSE IF ParseU16(port) >= 0 THEN ParseU16(port)
    ELSE DefaultPort

\* ------------------------------------------------------------------- JSON

\* serde_json's escaping of one character of a string
EscapeChar(c) ==
    CASE c = QUOTE -> <<BACKSLASH, QUOTE>>
      [] c = BACKSLASH -> <<BACKSLASH, BACKSLASH>>
      [] c = NL -> <<BACKSLASH, "n">>
      [] c = "\t" -> <<BACKSLASH, "t">>
      [] c = "\r" -> <<BACKSLASH, "r">>
      [] OTHER -> <<c>>

RECURSIVE Escape(_)
Escape(s) == IF s = <<>> THEN <<>> ELSE EscapeChar(Head(s)) \o Escape(Tail(s))

UnescapeChar(c) ==
    CASE c = "n" -> NL
      [] c = "t" -> "\t"
      [] c = "r" -> "\r"
      [] OTHER -> c

RECURSIVE Unescape(_)
Unescape(s) ==
    IF s = <<>> THEN <<>>
    ELSE IF Head(s) = BACKSLASH /\ Len(s) >= 2
         THEN <<UnescapeChar(s[2])>> \o Unescape(Tail(Tail(s)))
         ELSE <<Head(s)>> \o Unescape(Tail(s))

\* Value::String(s).to_string(), and the text of a string in a serialized document
JsonToString(s) == <<QUOTE>> \o Escape(s) \o <<QUOTE>>

\* serde_json::from_str on the text of a string, then Value::as_str
JsonAsStr(text) == Unescape(SubSeq(text, 2, Len(text) - 1))

\* ------------------------------------------------------- values of the model

S_localhost == <<"l", "o", "c", "a", "l", "h", "o", "s", "t">>
S_postgres == <<"p", "o", "s", "t", "g", "r", "e", "s">>
S_5432 == <<"5", "4", "3", "2">>

\* Option<T>
None == [some |-> FALSE, val |-> <<>>]
Some(v) == [some |-> TRUE, val |-> v]
NoPort == [some |-> FALSE, val |-> 0]

\* What the user types (without the line break) on the name prompts
TypedNames == {<<"a">>, <<"b", " ">>}

\* The -l argument
LoadNames == {<<"a">>, <<"b">>}

\* The password typed, or given with -W, in each of the two runs
Password == [r \in Runs |-> IF r = 1 THEN <<"p">> ELSE <<"q">>]

\* The command line (struct Args): -H, -d, -U (clap's default is "postgres"),
\* -p (an i16), -W given or not, -l
Args(host, dbname, port, password, load) ==
    [host |-> host, dbname |-> dbname, user |-> Some(S_postgres), port |-> port,
     password |-> password, load |-> load]

ArgsSet ==
    {Args(None, None, NoPort, FALSE, None),
     Args(Some(<<"h">>), Some(<<"d">>), [some |-> TRUE, val |-> -1], TRUE, None)}
    \cup {Args(None, None, NoPort, pw, Some(n)) : pw \in BOOLEAN, n \in LoadNames}

\* ------------------------------------------------------------ the store file

\* One object of the "connections" array, as written by write_to_json (json!)
Profile(name, host, port, user, dbname) ==
    [connection_name |-> JsonToString(name),
     host |-> JsonToString(host),
     port |-> JsonToString(port),
     user |-> JsonToString(user),
     dbname |-> JsonToString(dbname)]

\* ./db_connections.json. kind is
\*   "missing"    there is no such file
\*   "garbage"    the file holds text that is not JSON
\*   "empty"      the file was truncated by write_to_json and not yet written
\*   "partial"    write_to_json's write stopped part way
\*   "nonobject"  valid JSON, not an object
\*   "nokey"      a JSON object without the key "connections"
\*   "notarray"   a JSON object whose "connections" is not an array
\*   "doc"        a JSON object whose "connections" is the array conns
FileOf(kind, conns) == [kind |-> kind, conns |-> conns]

ExampleA == Profile(<<"a">>, <<"d", "b", "1">>, S_5432, <<"a", "l">>, <<"a", "p", "p">>)
ExampleA2 == Profile(<<"a">>, <<"h", "2">>, S_5432, <<"u", "2">>, <<"d", "2">>)
\* A profile whose name is a whole line as read_line returns it ("b " and the
\* line break), the only kind of name command 8 can match
ExampleBNL ==
    Profile(<<"b", " ", NL>>, <<"d", "b", "1">>, <<"7", "0">>, <<"a", "l">>, <<"a", "p", "p">>)

InitFiles ==
    {FileOf(k, <<>>) : k \in {"missing", "garbage", "nonobject", "nokey", "notarray"}}
    \cup {FileOf("doc", c) : c \in {<<>>, <<ExampleA>>, <<ExampleA, ExampleA2>>, <<ExampleBNL>>}}

\* serde_json::from_str::<Value>(&text) is Ok
ParsesAsJson(f) == f.kind \in {"nonobject", "nokey", "notarray", "doc"}

\* The names of the stored profiles (empty when the file holds no array of them)
StoredNames(f) ==
    IF f.kind = "doc"
    THEN [i \in 1..Len(f.conns) |-> JsonAsStr(f.conns[i].connection_name)]
    ELSE <<>>

Contains_LastOnly(names, n) == Len(names) > 0 /\ names[Len(names)] = n

Contains_FirstOnly(names, n) == Len(names) > 0 /\ names[1] = n

\* Vec::contains
Contains(names, n) == \E i \in 1..Len(names) : names[i] = n

\* ---------------------------------------------------------------- Connection

\* struct Connection; client is whether the Option<Client> is Some
NewSession == [client |-> FALSE, host |-> <<>>, dbname |-> <<>>, user |-> <<>>,
               port |-> <<>>, password |-> <<>>]

\* The connection string of the latest Connection::connect, and its outcome
NoTarget == [made |-> FALSE, ok |-> FALSE, user |-> <<>>, host |-> <<>>,
             dbname |-> <<>>, password |-> <<>>, port |-> <<>>]

connect_KeepsHandle(self, ok) == [self EXCEPT !.client = ok \/ self.client]

\* Connection::connect
connect(self, ok) == [self EXCEPT !.client = ok]

ConnectTarget(self, ok) ==
    [made |-> TRUE, ok |-> ok, user |-> self.user, host |-> self.host,
     dbname |-> self.dbname, password |-> self.password, port |-> self.port]

\* Connection::new: the fields of the Connection it returns, and the port number of
\* its connection string. The client of that Connection is not kept: main drops the
\* Connection (command 8) or calls connect() on it at once (-l).
ConnectionNew(host, dbname, uname, port, pword) ==
    [some |-> TRUE, host |-> host, dbname |-> dbname, user |-> uname,
     port |-> port, password |-> pword, port_num |-> PortNum(port)]

\* read_from_json has not returned Ok
NoReturn == [some |-> FALSE, host |-> <<>>, dbname |-> <<>>, user |-> <<>>,
             port |-> <<>>, password |-> <<>>, port_num |-> 0]

\* The fixed-query operations: [res, queried]. ok is whether the server answers.
QueryResult(self, ok) ==
    IF self.client
    THEN [res |-> IF ok THEN "Ok" ELSE "QueryError", queried |-> TRUE]
    ELSE [res |-> "ClientEmpty", queried |-> FALSE]

version(self, ok) == QueryResult(self, ok)
get_extensions(self, ok) == QueryResult(self, ok)
get_uptime_Unguarded(self, ok) ==
    [res |-> IF ok THEN "Ok" ELSE "QueryError", queried |-> TRUE]

get_uptime(self, ok) == QueryResult(self, ok)
custom_query(self, ok) == QueryResult(self, ok)
get_all_public_tables(self, ok) == QueryResult(self, ok)

\* --------------------------------------------------------------- write_to_json

WriteCheck_StoresPassword(self, f, connection_name) ==
    LET json_string ==
            [connection_name |-> JsonToString(connection_name),
             host |-> JsonToString(self.host), port |-> JsonToString(self.port),
             user |-> JsonToString(self.user), dbname |-> JsonToString(self.dbname),
             password |-> JsonToString(self.password)]
        connections_array == IF f.kind = "doc" THEN f.conns ELSE <<>>
    IN  IF f.kind = "missing"
        THEN [outcome |-> "JSONOpenFileError", doc |-> f]
        ELSE IF ~ParsesAsJson(f) \/ f.kind \in {"nonobject", "notarray"}
        THEN [outcome |-> "panic", doc |-> f]
        ELSE IF Contains(StoredNames(FileOf("doc", connections_array)), connection_name)
        THEN [outcome |-> "DuplicateConnection", doc |-> f]
        ELSE [outcome |-> "write",
              doc |-> FileOf("doc", Append(connections_array, json_string))]

\* The steps of write_to_json before it opens the file for writing:
\* [outcome, doc], doc the document to be written when outcome is "write".
WriteCheck(self, f, connection_name) ==
    LET json_string == Profile(connection_name, self.host, self.port, self.user, self.dbname)
        connections_array == IF f.kind = "doc" THEN f.conns ELSE <<>>
        connection_names == StoredNames(FileOf("doc", connections_array))
    IN  IF f.kind = "missing"
        THEN [outcome |-> "JSONOpenFileError", doc |-> f]
        ELSE IF ~ParsesAsJson(f) \/ f.kind \in {"nonobject", "notarray"}
        THEN [outcome |-> "panic", doc |-> f]
        ELSE IF Contains(connection_names, connection_name)
        THEN [outcome |-> "DuplicateConnection", doc |-> f]
        ELSE [outcome |-> "write",
              doc |-> FileOf("doc", Append(connections_array, json_string))]

\* -------------------------------------------------------------- read_from_json

\* The index of the first profile named connection_name, 0 when there is none
FirstMatch(conns, connection_name) ==
    IF \E i \in 1..Len(conns) : JsonAsStr(conns[i].connection_name) = connection_name
    THEN CHOOSE i \in 1..Len(conns) :
             /\ JsonAsStr(conns[i].connection_name) = connection_name
             /\ \A j \in 1..(i - 1) : JsonAsStr(conns[j].connection_name) # connection_name
    ELSE 0

ReadFromJson_PasswordFirst(self, f, connection_name, password) ==
    LET index == FirstMatch(f.conns, connection_name)
        p == f.conns[index]
        early == [self EXCEPT !.password = password]
    IN  IF f.kind # "doc"
        THEN [outcome |-> "panic", self |-> self, ret |-> NoReturn]
        ELSE IF index = 0
        THEN [outcome |-> "MatchNotFound", self |-> early, ret |-> NoReturn]
        ELSE [outcome |-> "Ok",
              self |-> [early EXCEPT !.dbname = p.dbname, !.user = p.dbname,
                                     !.port = JsonAsStr(p.dbname), !.host = p.dbname],
              ret |-> ConnectionNew(p.host, p.dbname, p.user, JsonAsStr(p.port),
                                    password)]

\* read_from_json: [outcome, self, ret]: the Session after the call and the
\* Connection returned.
\* Value::to_string() gives the JSON text of the field, as_str() its contents.
ReadFromJson(self, f, connection_name, password) ==
    LET index == FirstMatch(f.conns, connection_name)
        p == f.conns[index]
    IN  IF f.kind # "doc"
        THEN [outcome |-> "panic", self |-> self, ret |-> NoReturn]
        ELSE IF index = 0
        THEN [outcome |-> "MatchNotFound", self |-> self, ret |-> NoReturn]
        ELSE [outcome |-> "Ok",
              self |-> [self EXCEPT !.dbname = p.dbname,
                                    !.user = p.dbname,
                                    !.port = JsonAsStr(p.dbname),
                                    !.host = p.dbname,
                                    !.password = password],
              ret |-> ConnectionNew(p.host, p.dbname, p.user, JsonAsStr(p.port),
                                    password)]

\* ---------------------------------------------------------------------- state

VARIABLES
    pc,        \* where each run is: "start" (main before the loop), "repl" (at the
               \* prompt), "save_open" / "save_write" (inside write_to_json, before
               \* the file is opened for writing / before write_all), "exited"
               \* (command 0), "failed" (process::exit(1)), "panicked", "stopped"
               \* (the process was killed)
    conn,      \* the Session (main's `connection`)
    file,      \* ./db_connections.json
    last,      \* the latest command and what its operation returned
    returned,  \* the Connection returned by the latest read_from_json
    pending,   \* write_to_json's full_json_string, while it is writing
    saved,     \* the profile of the latest save that returned Ok(true)
    target,    \* the connection string of the latest connect() and its outcome
    restarts   \* how many times the program has been started again

vars == <<pc, conn, file, last, returned, pending, saved, target, restarts>>

Outcome(op, name, res, queried) ==
    [op |-> op, name |-> name, res |-> res, queried |-> queried]

NoSaved == [valid |-> FALSE, name |-> <<>>, host |-> <<>>, port |-> <<>>,
            user |-> <<>>, dbname |-> <<>>]

NoFile == FileOf("missing", <<>>)

Ended(r) == pc[r] \in {"exited", "failed", "panicked", "stopped"}

Init ==
    /\ pc = [r \in Runs |-> "start"]
    /\ conn = [r \in Runs |-> NewSession]
    /\ \E f \in InitFiles : file = [r \in Runs |-> f]
    /\ last = [r \in Runs |-> Outcome("none", <<>>, "none", FALSE)]
    /\ returned = [r \in Runs |-> NoReturn]
    /\ pending = [r \in Runs |-> NoFile]
    /\ saved = [r \in Runs |-> NoSaved]
    /\ target = [r \in Runs |-> NoTarget]
    /\ restarts = 0

\* ----------------------------------------------------------- main, before the loop

\* The Session built from the command line when -l is not given
SessionOfArgs(a, password) ==
    [client |-> FALSE,
     host |-> IF a.host.some THEN a.host.val ELSE S_localhost,
     dbname |-> IF a.dbname.some THEN a.dbname.val
                ELSE IF a.user.some THEN a.user.val ELSE S_postgres,
     user |-> a.user.val,
     port |-> IF a.port.some THEN IntToString(a.port.val) ELSE S_5432,
     password |-> IF a.password THEN password ELSE <<>>]

\* main up to the loop, for one run: [pc, conn, returned, target]
StartupOf(self, f, a, password, okConn) ==
    LET rd == ReadFromJson(self, f, a.load.val, password)
        loaded == [client |-> FALSE, host |-> rd.ret.host,
                   dbname |-> rd.ret.dbname, user |-> rd.ret.user,
                   port |-> rd.ret.port, password |-> password]
        session == IF ~a.load.some THEN SessionOfArgs(a, password)
                   ELSE IF a.password THEN loaded ELSE self
    IN  IF a.load.some /\ a.password /\ rd.outcome = "panic"
        THEN [pc |-> "panicked", conn |-> self, returned |-> NoReturn, target |-> NoTarget]
        ELSE IF a.load.some /\ a.password /\ rd.outcome = "MatchNotFound"
        THEN [pc |-> "failed", conn |-> rd.self, returned |-> NoReturn, target |-> NoTarget]
        ELSE [pc |-> "repl", conn |-> connect(session, okConn),
              returned |-> IF a.load.some /\ a.password THEN rd.ret ELSE NoReturn,
              target |-> ConnectTarget(session, okConn)]

Startup(a, okConn) ==
    /\ \A r \in Runs : pc[r] = "start"
    /\ \E st \in {[r \in Runs |->
                    StartupOf(conn[r], file[r], a, Password[r], okConn[r])]} :
           /\ pc' = [r \in Runs |-> st[r].pc]
           /\ conn' = [r \in Runs |-> st[r].conn]
           /\ returned' = [r \in Runs |-> st[r].returned]
           /\ target' = [r \in Runs |-> st[r].target]
           /\ last' = [r \in Runs |->
                         Outcome(IF a.load.some /\ a.password THEN "start_load" ELSE "start",
                                 IF a.load.some /\ a.password THEN a.load.val ELSE <<>>,
                                 IF st[r].pc = "repl" THEN "Ok"
                                 ELSE IF st[r].pc = "failed" THEN "MatchNotFound"
                                 ELSE "panic", FALSE)]
    /\ UNCHANGED <<file, pending, saved, restarts>>

\* The program is run again; the store file is what the earlier run left.
Restart ==
    /\ \A r \in Runs : Ended(r)
    /\ restarts < MaxRestarts
    /\ restarts' = restarts + 1
    /\ pc' = [r \in Runs |-> "start"]
    /\ conn' = [r \in Runs |-> NewSession]
    /\ last' = [r \in Runs |-> Outcome("none", <<>>, "none", FALSE)]
    /\ returned' = [r \in Runs |-> NoReturn]
    /\ pending' = [r \in Runs |-> NoFile]
    /\ target' = [r \in Runs |-> NoTarget]
    /\ UNCHANGED <<file, saved>>

\* ------------------------------------------------------------------- the loop

AtPrompt == \E r \in Runs : pc[r] = "repl"

\* "0"
Exit ==
    /\ AtPrompt
    /\ pc' = [r \in Runs |-> IF pc[r] = "repl" THEN "exited" ELSE pc[r]]
    /\ last' = [r \in Runs |-> IF pc[r] = "repl"
                               THEN Outcome("exit", <<>>, "Ok", FALSE) ELSE last[r]]
    /\ UNCHANGED <<conn, file, returned, pending, saved, target, restarts>>

\* "1", up to write_to_json's return or its opening the file for writing
SaveOf(self, f, typed) ==
    LET conn_name == Trim(ReadLine(<<>>, typed))
        wc == WriteCheck(self, f, conn_name)
    IN  [pc |-> IF wc.outcome = "panic" THEN "panicked"
                ELSE IF wc.outcome = "write" THEN "save_open" ELSE "repl",
         last |-> Outcome("save", conn_name,
                          IF wc.outcome = "write" THEN "writing" ELSE wc.outcome, FALSE),
         pending |-> IF wc.outcome = "write" THEN wc.doc ELSE NoFile]

Save(typed) ==
    /\ AtPrompt
    /\ \E sv \in {[r \in Runs |-> SaveOf(conn[r], file[r], typed)]} :
           /\ pc' = [r \in Runs |-> IF pc[r] = "repl" THEN sv[r].pc ELSE pc[r]]
           /\ last' = [r \in Runs |-> IF pc[r] = "repl" THEN sv[r].last ELSE last[r]]
           /\ pending' = [r \in Runs |->
                            IF pc[r] = "repl" THEN sv[r].pending ELSE pending[r]]
    /\ UNCHANGED <<conn, file, returned, saved, target, restarts>>

\* OpenOptions::new().write(true).create(true).truncate(true).open(file_path)
SaveOpen(ok) ==
    /\ \E r \in Runs : pc[r] = "save_open"
    /\ pc' = [r \in Runs |-> IF pc[r] = "save_open"
                             THEN (IF ok THEN "save_write" ELSE "panicked") ELSE pc[r]]
    /\ file' = [r \in Runs |-> IF pc[r] = "save_open" /\ ok
                               THEN FileOf("empty", <<>>) ELSE file[r]]
    /\ last' = [r \in Runs |-> IF pc[r] = "save_open" /\ ~ok
                               THEN [last[r] EXCEPT !.res = "panic"] ELSE last[r]]
    /\ pending' = [r \in Runs |-> IF pc[r] = "save_open" /\ ~ok
                                  THEN NoFile ELSE pending[r]]
    /\ UNCHANGED <<conn, returned, saved, target, restarts>>

\* The profile appended by the document doc
LastProfile(doc) ==
    LET p == doc.conns[Len(doc.conns)]
    IN  [valid |-> TRUE, name |-> JsonAsStr(p.connection_name),
         host |-> JsonAsStr(p.host), port |-> JsonAsStr(p.port),
         user |-> JsonAsStr(p.user), dbname |-> JsonAsStr(p.dbname)]

\* file.write_all(full_json_string.as_bytes()): how is "all" (written), "part"
\* or "none" (the write failed after writing some or nothing)
SaveWrite(how) ==
    /\ \E r \in Runs : pc[r] = "save_write"
    /\ pc' = [r \in Runs |-> IF pc[r] = "save_write"
                             THEN (IF how = "all" THEN "repl" ELSE "panicked") ELSE pc[r]]
    /\ file' = [r \in Runs |->
                  IF pc[r] # "save_write" THEN file[r]
                  ELSE IF how = "all" THEN pending[r]
                  ELSE IF how = "part" THEN FileOf("partial", <<>>)
                  ELSE file[r]]
    /\ last' = [r \in Runs |->
                  IF pc[r] # "save_write" THEN last[r]
                  ELSE [last[r] EXCEPT !.res = IF how = "all" THEN "Ok" ELSE "panic"]]
    /\ saved' = [r \in Runs |-> IF pc[r] = "save_write" /\ how = "all"
                                THEN LastProfile(pending[r]) ELSE saved[r]]
    /\ pending' = [r \in Runs |-> IF pc[r] = "save_write" THEN NoFile ELSE pending[r]]
    /\ UNCHANGED <<conn, returned, target, restarts>>

\* The process is killed while write_to_json is between two of its file steps
Crash ==
    /\ \E r \in Runs : pc[r] \in {"save_open", "save_write"}
    /\ pc' = [r \in Runs |-> IF pc[r] \in {"save_open", "save_write"}
                             THEN "stopped" ELSE pc[r]]
    /\ pending' = [r \in Runs |-> IF pc[r] \in {"save_open", "save_write"}
                                  THEN NoFile ELSE pending[r]]
    /\ UNCHANGED <<conn, file, last, returned, saved, target, restarts>>

\* A command that only returns a result
Report(op, res) ==
    /\ AtPrompt
    /\ last' = [r \in Runs |-> IF pc[r] = "repl"
                               THEN Outcome(op, <<>>, res[r].res, res[r].queried)
                               ELSE last[r]]
    /\ UNCHANGED <<pc, conn, file, returned, pending, saved, target, restarts>>

\* "2"
Uptime(ok) == Report("uptime", [r \in Runs |-> get_uptime(conn[r], ok)])

\* "3"
Version(ok) == Report("version", [r \in Runs |-> version(conn[r], ok)])

\* "4"
Tables(ok) == Report("tables", [r \in Runs |-> get_all_public_tables(conn[r], ok)])

\* "5"
Extensions(ok) == Report("extensions", [r \in Runs |-> get_extensions(conn[r], ok)])

\* "6": prints that custom queries are not implemented; custom_query is not called
CustomQuery ==
    Report("custom", [r \in Runs |-> [res |-> "Unimplemented", queried |-> FALSE]])

\* anything else: help_menu()
Help == Report("help", [r \in Runs |-> [res |-> "Ok", queried |-> FALSE]])

\* "7"
Reconnect(ok) ==
    /\ AtPrompt
    /\ conn' = [r \in Runs |-> IF pc[r] = "repl" THEN connect(conn[r], ok[r]) ELSE conn[r]]
    /\ target' = [r \in Runs |-> IF pc[r] = "repl"
                                 THEN ConnectTarget(conn[r], ok[r]) ELSE target[r]]
    /\ last' = [r \in Runs |-> IF pc[r] = "repl"
                               THEN Outcome("reconnect", <<>>, "Ok", FALSE) ELSE last[r]]
    /\ UNCHANGED <<pc, file, returned, pending, saved, restarts>>

\* "8", for one run: [pc, conn, returned, target, last]
LoadOf(self, f, tgt, typed, password, okConn) ==
    LET connection_name == ReadLine(<<>>, typed)
        connection_password == ReadLine(<<>>, password)
        rd == ReadFromJson(self, f, connection_name, connection_password)
        again == ReadLine(connection_password, password)
        session == [rd.self EXCEPT !.password = again]
    IN  IF rd.outcome = "panic"
        THEN [pc |-> "panicked", conn |-> self, returned |-> NoReturn, target |-> tgt,
              last |-> Outcome("load", connection_name, "panic", FALSE)]
        ELSE IF rd.outcome = "MatchNotFound"
        THEN [pc |-> "repl", conn |-> rd.self, returned |-> NoReturn, target |-> tgt,
              last |-> Outcome("load", connection_name, "MatchNotFound", FALSE)]
        ELSE [pc |-> "repl", conn |-> connect(session, okConn), returned |-> rd.ret,
              target |-> ConnectTarget(session, okConn),
              last |-> Outcome("load", connection_name, "Ok", FALSE)]

Load(typed, okConn) ==
    /\ AtPrompt
    /\ \E ld \in {[r \in Runs |->
                    IF pc[r] = "repl"
                    THEN LoadOf(conn[r], file[r], target[r], typed, Password[r],
                                okConn[r])
                    ELSE [pc |-> pc[r], conn |-> conn[r], returned |-> returned[r],
                          target |-> target[r], last |-> last[r]]]} :
           /\ pc' = [r \in Runs |-> ld[r].pc]
           /\ conn' = [r \in Runs |-> ld[r].conn]
           /\ returned' = [r \in Runs |-> ld[r].returned]
           /\ target' = [r \in Runs |-> ld[r].target]
           /\ last' = [r \in Runs |-> ld[r].last]
    /\ UNCHANGED <<file, pending, saved, restarts>>

Answers == [Runs -> BOOLEAN]

Next ==
    \/ \E a \in ArgsSet, okConn \in Answers : Startup(a, okConn)
    \/ Restart
    \/ Exit
    \/ \E typed \in TypedNames : Save(typed)
    \/ \E ok \in BOOLEAN : SaveOpen(ok)
    \/ \E how \in {"all", "part", "none"} : SaveWrite(how)
    \/ Crash
    \/ \E ok \in BOOLEAN : Uptime(ok)
    \/ \E ok \in BOOLEAN : Version(ok)
    \/ \E ok \in BOOLEAN : Tables(ok)
    \/ \E ok \in BOOLEAN : Extensions(ok)
    \/ CustomQuery
    \/ Help
    \/ \E ok \in Answers : Reconnect(ok)
    \/ \E typed \in TypedNames, okConn \in Answers : Load(typed, okConn)

Spec == Init /\ [][Next]_vars

\* A second specification: the store starts with pairwise distinct profile names
DistinctNames(f) ==
    \A i, j \in 1..Len(f.conns) :
        i # j => JsonAsStr(f.conns[i].connection_name) # JsonAsStr(f.conns[j].connection_name)

InitDistinct == Init /\ \A r \in Runs : DistinctNames(file[r])

SpecDistinct == InitDistinct /\ [][Next]_vars

\* --------------------------------------------------------------------- claims

\* connection_name is the name of a profile in the store file f
NameStored(f, connection_name) ==
    /\ f.kind = "doc"
    /\ \E i \in 1..Len(f.conns) : JsonAsStr(f.conns[i].connection_name) = connection_name

\* Every run is at the prompt: the step that follows is one command of the loop,
\* and it records itself in last
RunsAtPrompt == \A q \in Runs : pc[q] = "repl"

\* Every run is in main before the loop: the step that follows is Startup
RunsAtStart == \A q \in Runs : pc[q] = "start"

\* This step is command 1 in run r: write_to_json is called with last'[r].name
SaveStep(r) == RunsAtPrompt /\ last'[r].op = "save"

\* This step calls read_from_json in run r (command 8, or -l with -W), with
\* the name last'[r].name
LoadStep(r) ==
    \/ RunsAtPrompt /\ last'[r].op = "load"
    \/ RunsAtStart /\ last'[r].op = "start_load"

\* C1: a save (command 1, write_to_json) under a name that a stored profile
\* already has returns DuplicateConnection, returns to the prompt without
\* entering the file-writing steps, and leaves the store file as it was.
C1_DuplicateSaveRefused ==
    [][\A r \in Runs :
         (SaveStep(r) /\ NameStored(file[r], last'[r].name))
            => /\ last'[r].res = "DuplicateConnection"
               /\ pc'[r] = "repl"
               /\ file'[r] = file[r]
               /\ Len(file'[r].conns) = Len(file[r].conns)]_vars

C1_Witness ==
    \E r \in Runs :
        /\ last[r].op = "save"
        /\ last[r].res = "DuplicateConnection"
        /\ NameStored(file[r], last[r].name)

\* C2 (the claim as stated): when a load returns Ok for the name of the latest
\* successful save, the host, port, user and dbname of the Connection it
\* returns are the strings that were saved.
C2_RoundTrip ==
    \A r \in Runs :
        (/\ last[r].op \in {"start_load", "load"}
         /\ returned[r].some
         /\ saved[r].valid
         /\ last[r].name = saved[r].name)
            => /\ returned[r].host = saved[r].host
               /\ returned[r].port = saved[r].port
               /\ returned[r].user = saved[r].user
               /\ returned[r].dbname = saved[r].dbname

C4_NoClientNoQuery ==
    \A r \in Runs :
        ~conn[r].client
            => /\ last[r].op \in {"uptime", "version", "tables", "extensions"}
                    => last[r].res = "ClientEmpty" /\ ~last[r].queried
               /\ \A ok \in BOOLEAN :
                      /\ custom_query(conn[r], ok).res = "ClientEmpty"
                      /\ ~custom_query(conn[r], ok).queried

C4_Witness ==
    \E r \in Runs :
        /\ ~conn[r].client
        /\ last[r].op = "uptime"
        /\ last[r].res = "ClientEmpty"

\* C5: started on a store whose profile names are pairwise distinct
\* (SpecDistinct), the store never holds two profiles of the same name.
C5_NamesStayDistinct == \A r \in Runs : DistinctNames(file[r])

C5_Witness ==
    \E r \in Runs :
        /\ Len(file[r].conns) >= 2
        /\ last[r].op = "save"
        /\ last[r].res = "DuplicateConnection"
        /\ restarts > 0

\* C6: the two runs, which differ in their passwords only, have the same store
\* file and are writing the same document at every step, and no stored profile
\* has a field other than connection_name, host, port, user and dbname.
C6_PasswordNotStored ==
    /\ file[1] = file[2]
    /\ pending[1] = pending[2]
    /\ \A r \in Runs : \A i \in 1..Len(file[r].conns) :
           DOMAIN file[r].conns[i] = {"connection_name", "host", "port", "user", "dbname"}

C6_Witness ==
    /\ conn[1].password # conn[2].password
    /\ \A r \in Runs :
           /\ last[r].op = "save"
           /\ last[r].res = "Ok"
           /\ conn[r].password # <<>>
           /\ saved[r].valid

\* C7: after every connect() the client is present exactly when that attempt
\* succeeded, and the program is at the prompt, where command 7 is accepted.
C7_HandleFollowsAttempt ==
    \A r \in Runs :
        /\ target[r].made => conn[r].client = target[r].ok
        /\ ~target[r].made => ~conn[r].client
        /\ (last[r].op \in {"start", "start_load", "reconnect", "load"}
            /\ last[r].res = "Ok")
               => target[r].made /\ pc[r] = "repl"

C7_Witness ==
    \E r \in Runs :
        /\ last[r].op = "reconnect"
        /\ target[r].made
        /\ ~target[r].ok
        /\ ~conn[r].client
        /\ pc[r] = "repl"

\* C8 (the claim as stated): a run that has reached the loop ends only by
\* command 0, or by a load (command 8) that meets a store file that is missing
\* or is not a JSON document with a "connections" array.
C8_OnlyExitLeavesLoop ==
    [][\A r \in Runs :
         (pc[r] \in {"repl", "save_open", "save_write"}
          /\ pc'[r] \in {"exited", "failed", "panicked"})
            => \/ last'[r].op = "exit"
               \/ last'[r].op = "load" /\ file[r].kind # "doc"]_vars

\* C9 (the claim as stated): a save that finds the store file missing, or holding
\* anything but a JSON document with an array of profiles, returns
\* JSONOpenFileError to the loop and leaves the file as it was.
C9_StoreUnavailableReturned ==
    [][\A r \in Runs :
         (SaveStep(r) /\ file[r].kind # "doc")
            => /\ last'[r].res = "JSONOpenFileError"
               /\ pc'[r] = "repl"
               /\ file'[r] = file[r]]_vars

\* C10 (the claim as stated): the store file is never empty or partially
\* written, at any step of write_to_json or after the process has stopped.
C10_NeverEmptyOrPartial ==
    \A r \in Runs : file[r].kind \notin {"empty", "partial"}

\* The stored profile that a load under connection_name finds: the first of that name
MatchedProfile(f, connection_name) == f.conns[FirstMatch(f.conns, connection_name)]

\* C11 (the claim as stated): after a load that found the named profile (command
\* 8, or -l with -W), the Session's host, port, user and dbname are the
\* contents of the profile's fields of those names, its password is the
\* password the caller gave, and the connect() that follows was made with
\* exactly these values.
C11_SessionIsLoadedProfile ==
    \A r \in Runs :
        (last[r].op \in {"load", "start_load"} /\ last[r].res = "Ok")
            => LET p == MatchedProfile(file[r], last[r].name)
               IN  /\ conn[r].host = JsonAsStr(p.host)
                   /\ conn[r].port = JsonAsStr(p.port)
                   /\ conn[r].user = JsonAsStr(p.user)
                   /\ conn[r].dbname = JsonAsStr(p.dbname)
                   /\ conn[r].password = Password[r]
                   /\ target[r].made
                   /\ target[r].host = JsonAsStr(p.host)
                   /\ target[r].port = JsonAsStr(p.port)
                   /\ target[r].user = JsonAsStr(p.user)
                   /\ target[r].dbname = JsonAsStr(p.dbname)
                   /\ target[r].password = Password[r]

\* C12 (the claim as stated): the connection string of every connect() (at
\* startup, on command 7, after a load) has the port 5432 when the Session's
\* port is empty or is not a u16, and the parsed port otherwise.
C12_ConnectDefaultsPort ==
    \A r \in Runs :
        (last[r].op \in {"start", "start_load", "reconnect", "load"} /\ last[r].res = "Ok")
            => /\ target[r].made
               /\ target[r].port = NatToString(PortNum(conn[r].port))

\* C13 (the claim as stated): a load of command 8 whose name line, taken in the
\* form command 1 gives its name line (trimmed), is the name of the profile
\* that command 1 last saved and the store still holds, finds a profile.
C13_SavedNameIsFound ==
    \A r \in Runs :
        (/\ last[r].op = "load"
         /\ saved[r].valid
         /\ saved[r].name = Trim(last[r].name)
         /\ NameStored(file[r], saved[r].name))
            => last[r].res = "Ok"

====
